---- MODULE Spec2Model ----
(***************************************************************************)
(* Model of src/handler.py: the RunPod serverless handler that submits a   *)
(* ComfyUI workflow, polls for its completion and collects the images.     *)
(*                                                                         *)
(* JSON values are tagged tuples (<<"int", 0, 20>>, <<"str", "cat">>,      *)
(* <<"null">>).  Python objects that can be aliased (the workflow dict     *)
(* with its "nodes" list, a node dict, a "widgets_values" list) live in a  *)
(* heap, a sequence of objects addressed by their index, so that           *)
(* copy.deepcopy and in-place writes are distinguishable.                  *)
(*                                                                         *)
(* The engine's 2xx responses are JSON objects of the engine's API when    *)
(* they parse at all; a body that does not parse makes response.json()     *)
(* raise requests.exceptions.JSONDecodeError, which is a subclass of       *)
(* requests.exceptions.RequestException in the requests versions the       *)
(* imported runpod package depends on, and is therefore caught by the      *)
(* handlers' `except RequestException` clauses.                            *)
(***************************************************************************)
EXTENDS Integers, Sequences, FiniteSets, TLC

----------------------------------------------------------------------------
(* Program constants *)

MAX_RETRIES == 3
POLL_INTERVAL == 1
JOB_TIMEOUT == 300
SUBGRAPH_NODE_INDEX == 76
SAVE_IMAGE_NODE_INDEX == 9
\* requests.get(url, timeout=10) in get_history
HISTORY_TIMEOUT == 10
\* random.randint(0, 2**32 - 1): 2**32 is HALF * HALF.  A number is kept as
\* its two 16-bit halves, since 2**32 - 1 exceeds TLC's integers.
HALF == 65536

----------------------------------------------------------------------------
(* Bounds of the model *)

\* largest number of keys in an override mapping passed to apply_workflow_overrides
MaxOverrideKeys == 2
\* longest widgets_values list of the parameterizable unit
MaxWidgets == 11
\* largest timeout passed to wait_for_completion when it is called directly
MaxTimeout == 3
\* failed status queries are counted up to this number
MaxFailCount == 2
\* largest number of image descriptors in an output manifest
MaxImages == 3
\* number of requests handled side by side
MaxRequests == 2

----------------------------------------------------------------------------
(* JSON values *)

Null == <<"null">>
Num(n) == <<"int", n \div HALF, n % HALF>>
\* the number hi * 2**16 + lo
Num32(hi, lo) == <<"int", hi, lo>>
\* 0 <= v <= 2**32 - 1
InSeedRange(v) == v[1] = "int" /\ v[2] \in 0..(HALF - 1) /\ v[3] \in 0..(HALF - 1)
Str(s) == <<"str", s>>
IsNumber(v) == v[1] = "int"
IsString(v) == v[1] = "str"

\* Python's None for references and identifiers
None == 0
NoId == "None"

Min(S) == CHOOSE x \in S : \A y \in S : x <= y

----------------------------------------------------------------------------
(* Heap objects: kind, id (of a node), refs (addresses of the children),   *)
(* items (the values of a list).                                           *)

DocObj(nodeAddrs) == [kind |-> "doc", id |-> 0, refs |-> nodeAddrs, items |-> <<>>]
NodeObj(i, listAddrs) == [kind |-> "node", id |-> i, refs |-> listAddrs, items |-> <<>>]
ListObj(vals) == [kind |-> "list", id |-> 0, refs |-> <<>>, items |-> vals]

\* widgets_values of the parameterizable unit as exported in the workflow file:
\* text, width, height, steps, cfg, seed, control_after_generate, unet_name,
\* clip_name, vae_name (and further slots for lists longer than the ten known)
KnownWidgets(tag) ==
    << Str(tag), Num(1024), Num(1024), Num(9), Num(1), Num(42), Str("fixed"),
       Str("unet"), Str("clip"), Str("vae") >>
TemplateWidgets(tag, n) ==
    [i \in 1..n |-> IF i <= 10 THEN KnownWidgets(tag)[i] ELSE Str("extra")]

\* shape of a workflow document: does it have the node with id 76, does
\* that node have a widgets_values key, and how long is the list
WorkflowShapes ==
    { [node |-> FALSE, wv |-> FALSE, len |-> 0] }
    \cup { [node |-> TRUE, wv |-> FALSE, len |-> 0] }
    \cup { [node |-> TRUE, wv |-> TRUE, len |-> n] : n \in 0..MaxWidgets }

\* the objects json.load builds for a document of the given shape, appended to heap h;
\* the document is the last object
LoadDoc(h, shape, tag) ==
    LET a == Len(h)
        save == << ListObj(<<Str("ComfyUI")>>), NodeObj(SAVE_IMAGE_NODE_INDEX, <<a + 1>>) >>
        unit == IF ~shape.node THEN <<>>
                ELSE IF ~shape.wv THEN << NodeObj(SUBGRAPH_NODE_INDEX, <<>>) >>
                ELSE << ListObj(TemplateWidgets(tag, shape.len)),
                        NodeObj(SUBGRAPH_NODE_INDEX, <<a + 3>>) >>
        nodes == <<a + 2>> \o (IF shape.node THEN <<a + 2 + Len(unit)>> ELSE <<>>)
    IN  h \o save \o unit \o << DocObj(nodes) >>

\* the value of the object graph below address a, without the addresses
RECURSIVE Value(_, _)
Value(h, a) ==
    [kind |-> h[a].kind, id |-> h[a].id, items |-> h[a].items,
     sub |-> [i \in 1..Len(h[a].refs) |-> Value(h, h[a].refs[i])]]

\* the addresses of the object graph below address a
RECURSIVE Reach(_, _)
Reach(h, a) ==
    {a} \cup UNION { Reach(h, h[a].refs[i]) : i \in 1..Len(h[a].refs) }

----------------------------------------------------------------------------
(* copy.deepcopy: a fresh object for every object below a *)

RECURSIVE deepcopy(_, _)
RECURSIVE copyRefs(_, _, _)

copyRefs(h, refs, done) ==
    IF Len(done) = Len(refs) THEN [heap |-> h, addrs |-> done]
    ELSE LET c == deepcopy(h, refs[Len(done) + 1])
         IN  copyRefs(c.heap, refs, Append(done, c.addr))

\* a copy that is only another reference to the same objects
deepcopy_alias(h, a) == [heap |-> h, addr |-> a]

deepcopy(h, a) ==
    LET c == copyRefs(h, h[a].refs, <<>>)
    IN  [heap |-> Append(c.heap, [h[a] EXCEPT !.refs = c.addrs]),
         addr |-> Len(c.heap) + 1]

----------------------------------------------------------------------------
(* apply_workflow_overrides *)

\* a layout in which steps and cfg have changed places
override_map_swapped ==
    [k \in {"prompt", "width", "height", "steps", "cfg", "seed",
            "unet_name", "clip_name", "vae_name"} |->
        CASE k = "prompt" -> 0
          [] k = "width" -> 1
          [] k = "height" -> 2
          [] k = "steps" -> 4
          [] k = "cfg" -> 3
          [] k = "seed" -> 5
          [] k = "unet_name" -> 7
          [] k = "clip_name" -> 8
          [] k = "vae_name" -> 9]

override_map ==
    [k \in {"prompt", "width", "height", "steps", "cfg", "seed",
            "unet_name", "clip_name", "vae_name"} |->
        CASE k = "prompt" -> 0
          [] k = "width" -> 1
          [] k = "height" -> 2
          [] k = "steps" -> 3
          [] k = "cfg" -> 4
          [] k = "seed" -> 5
          [] k = "unet_name" -> 7
          [] k = "clip_name" -> 8
          [] k = "vae_name" -> 9]

\* a loop that inserts the values in front of the list instead of writing
\* them into their slots
ApplyOverrideLoop_insert(items, overrides) ==
    [i \in 1..Cardinality(DOMAIN overrides \cap DOMAIN override_map) |-> Null] \o items

\* the loop over overrides.items(): every recognized key whose index is in
\* range writes its value, whatever the value is
ApplyOverrideLoop(items, overrides) ==
    [i \in 1..Len(items) |->
        LET keys == { k \in DOMAIN overrides :
                        k \in DOMAIN override_map /\ override_map[k] = i - 1 }
        IN  IF keys = {} THEN items[i] ELSE overrides[CHOOSE k \in keys : TRUE]]

\* rnd is the value random.randint returns if it is called, as <<hi, lo>>.
\* Result: the heap after the call, the returned document (None if the call
\* raised), and whether it raised (IndexError on widgets_values[5]).
apply_workflow_overrides(h, workflow, overrides, rnd) ==
    LET c == deepcopy(h, workflow)
        h1 == c.heap
        w == c.addr
        found == { i \in 1..Len(h1[w].refs) : h1[h1[w].refs[i]].id = SUBGRAPH_NODE_INDEX }
    IN  IF found = {} THEN [heap |-> h1, ret |-> w, raised |-> FALSE]
        ELSE
        LET subgraph_node == h1[w].refs[Min(found)]
            hasList == h1[subgraph_node].refs # <<>>
            \* subgraph_node.get("widgets_values", []) builds a new list when the key is missing
            h2 == IF hasList THEN h1 ELSE Append(h1, ListObj(<<>>))
            widgets_values == IF hasList THEN h1[subgraph_node].refs[1] ELSE Len(h1) + 1
            items1 == ApplyOverrideLoop(h2[widgets_values].items, overrides)
            seedNull == "seed" \in DOMAIN overrides /\ overrides["seed"] = Null
        IN  IF seedNull /\ Len(items1) < 6
            THEN [heap |-> [h2 EXCEPT ![widgets_values].items = items1],
                  ret |-> None, raised |-> TRUE]
            ELSE
            LET items2 == IF seedNull THEN [items1 EXCEPT ![6] = Num32(rnd[1], rnd[2])] ELSE items1
                items3 == IF Len(items2) > 6
                          THEN [items2 EXCEPT ![7] = Str("randomize")] ELSE items2
            IN  [heap |-> [h2 EXCEPT ![widgets_values].items = items3,
                                     ![subgraph_node].refs = <<widgets_values>>],
                 ret |-> w, raised |-> FALSE]

----------------------------------------------------------------------------
(* Requests.  An event is a mapping or something else; its "input" is      *)
(* absent, a mapping or something else; "workflow" is absent, a falsy      *)
(* value or a document; "overrides" is absent, a mapping, or a value that  *)
(* is not a mapping (falsy: [], "", 0, false; or truthy: [1], "x").        *)

EmptyMap == [k \in {} |-> Null]

OvKeys == DOMAIN override_map \cup {"bogus"}
OvValues == { Null, Num(20), Str("cat") }

\* the override mappings with at most n keys
OverrideMaps(n) ==
    UNION { [K -> OvValues] : K \in { S \in SUBSET OvKeys : Cardinality(S) <= n } }

FullShape == [node |-> TRUE, wv |-> TRUE, len |-> 10]
ShortShape == [node |-> TRUE, wv |-> TRUE, len |-> 5]
NoUnitShape == [node |-> FALSE, wv |-> FALSE, len |-> 0]

NoWorkflow == [kind |-> "absent", shape |-> NoUnitShape]
NoOverrides == [shape |-> "absent", map |-> EmptyMap]
NoInput == [shape |-> "absent", workflow |-> NoWorkflow, overrides |-> NoOverrides]

\* bool(overrides)
Truthy(ov) == ov.shape = "truthy" \/ (ov.shape = "dict" /\ DOMAIN ov.map # {})

NumericParams == << "width", "height", "steps", "cfg", "seed" >>

\* (is_valid, error_message); the message is a sequence of string parts
validate_input(event) ==
    IF event.shape # "dict"
    THEN [valid |-> FALSE, msg |-> <<"Event must be a dictionary">>]
    ELSE IF event.input.shape \notin {"absent", "dict"}
    THEN [valid |-> FALSE, msg |-> <<"Event input must be a dictionary">>]
    ELSE
    LET input_data == IF event.input.shape = "absent" THEN NoInput ELSE event.input
        overrides == input_data.overrides
        bad == { i \in 1..Len(NumericParams) :
                   /\ NumericParams[i] \in DOMAIN overrides.map
                   /\ overrides.map[NumericParams[i]] # Null
                   /\ ~IsNumber(overrides.map[NumericParams[i]]) }
    IN  IF ~Truthy(overrides) THEN [valid |-> TRUE, msg |-> <<>>]
        ELSE IF overrides.shape # "dict"
        THEN [valid |-> FALSE, msg |-> <<"Overrides must be a dictionary">>]
        ELSE IF bad # {}
        THEN [valid |-> FALSE,
              msg |-> <<"Parameter '", NumericParams[Min(bad)], "' must be a number">>]
        ELSE IF /\ "prompt" \in DOMAIN overrides.map
                /\ overrides.map["prompt"] # Null
                /\ ~IsString(overrides.map["prompt"])
        THEN [valid |-> FALSE, msg |-> <<"Parameter 'prompt' must be a string">>]
        ELSE [valid |-> TRUE, msg |-> <<>>]

----------------------------------------------------------------------------
(* State *)

VARIABLES
    heap,               \* the Python objects
    WORKFLOW_FILE,      \* shape of the document in /comfyui/example_workflow.json
    DEFAULT_WORKFLOW,   \* the global: address of the loaded template, or None
    pc,                 \* position of the running call
    event,              \* the request being handled
    workflow,           \* handler's local: address of the workflow to submit
    attempt,            \* queue_prompt's loop variable
    prompt_id,          \* what queue_prompt returned
    timeout,            \* wait_for_completion's parameter
    elapsed,            \* time.time() - start_time in wait_for_completion
    result,             \* what wait_for_completion returned
    cursor,             \* extract_images: position in the manifest
    images,             \* extract_images: the list built so far
    response,           \* what the handler returned or raised
    attempts,           \* log: the engine's answer to each POST /prompt of the submission
    sleeps,             \* log: the time.sleep durations of the submission
    nHist,              \* log: number of GET /history of the request (counted up to MaxFailCount)
    nFail,              \* log: number of failed GET /history (counted up to MaxFailCount)
    lastHist,           \* log: the last status response
    fetches,            \* log: outcome of each GET /view of the request
    ovIn,               \* direct call of apply_workflow_overrides: the input document
    ovArg,              \*   the overrides
    ovBefore,           \*   the input's value before the call
    ovOut,              \*   the call's result
    ovSecond,           \*   the result of a second call on the same input
    ovRepeat,           \*   the result of a call on the first call's result
    posted,             \* log: the identifier in the engine's last answer to POST /prompt
    histId,             \* log: the identifier the last GET /history asked for
    reqs                \* requests handled side by side: position, event and workflow of each

vars == << heap, WORKFLOW_FILE, DEFAULT_WORKFLOW, pc, event, workflow, attempt,
           prompt_id, timeout, elapsed, result, cursor, images, response,
           attempts, sleeps, nHist, nFail, lastHist, fetches,
           ovIn, ovArg, ovBefore, ovOut, ovSecond, ovRepeat, posted, histId, reqs >>

----------------------------------------------------------------------------
(* The engine's answers *)

PromptIds == { "p1", "p2" }

\* POST /prompt: a transport-level failure (connection error, non-2xx,
\* timeout), a 2xx body that does not parse, a 2xx object without a
\* (non-empty) prompt_id, or a 2xx object with one
PostResponses ==
    { [kind |-> k, id |-> NoId] : k \in {"fail", "badjson", "noid"} }
    \cup { [kind |-> "id", id |-> i] : i \in PromptIds }

ImgNames == << "a.png", "b.png", "c.png", "d.png", "e.png" >>
Descriptor(f) == [filename |-> f, subfolder |-> "", type |-> "output"]

\* descriptor lists of length n: the i-th has its own filename or none
DescSeqs(n) ==
    { [i \in 1..n |-> Descriptor(IF i \in S THEN ImgNames[i] ELSE "")] : S \in SUBSET (1..n) }

NodeOut(ds) == [hasImages |-> TRUE, images |-> ds]
NoImagesOut == [hasImages |-> FALSE, images |-> <<>>]

\* output manifests: no node, one node with up to MaxImages images, or two
\* images spread over two nodes behind a node without images
Manifests ==
    { <<>> }
    \cup UNION { { <<NodeOut(ds)>> : ds \in DescSeqs(n) } : n \in 0..MaxImages }
    \cup { <<NoImagesOut, NodeOut(SubSeq(ds, 1, 1)), NodeOut(SubSeq(ds, 2, 2))>> :
             ds \in DescSeqs(2) }

NoEntry == [completed |-> FALSE, str |-> "", exception |-> <<>>, outputs |-> <<>>]

\* history entries: status.completed, status.str, status.exception (<<>> when
\* the key is missing) and outputs
HistoryEntries ==
    { NoEntry, [NoEntry EXCEPT !.str = "running"] }
    \cup { [NoEntry EXCEPT !.str = "execution error", !.exception = x] : x \in { <<>>, <<"boom">> } }
    \cup { [NoEntry EXCEPT !.completed = TRUE, !.str = "success", !.outputs = m] : m \in Manifests }
    \cup { [NoEntry EXCEPT !.completed = TRUE, !.str = "execution error", !.exception = <<"boom">>] }

\* GET /history/{id}: a transport-level failure, a body that does not
\* parse, an object without entry, an object with an entry for the id asked
\* for, or an object with a completed entry, with one image, for another id
HistoryResponses(id) ==
    { [kind |-> k, key |-> NoId, entry |-> NoEntry] : k \in {"fail", "badjson", "ok"} }
    \cup { [kind |-> "ok", key |-> id, entry |-> e] : e \in HistoryEntries }
    \cup { [kind |-> "ok", key |-> i,
            entry |-> [NoEntry EXCEPT !.completed = TRUE, !.str = "success",
                                      !.outputs = <<NodeOut(<<Descriptor(ImgNames[1])>>)>>]] :
              i \in PromptIds \ {id} }

NoHist == [kind |-> "none", key |-> NoId, entry |-> NoEntry]

\* GET /view: a transport-level failure, a 2xx answer without content, or content
ViewResponses == { "fail", "empty", "bytes" }

----------------------------------------------------------------------------
(* Results *)

NoResult == [status |-> "", error |-> <<>>, data |-> NoEntry]

NoResponse == [raised |-> FALSE, exc |-> "", status |-> "", error |-> Null, output |-> Null]
Failure(msg) == [NoResponse EXCEPT !.status = "FAILED", !.error = Str(msg)]
\* execution_time, the handler's wall-clock duration, is left out of the output
Success(imgs, pid) ==
    [NoResponse EXCEPT !.status = "COMPLETED",
                       !.output = <<"obj", [images |-> imgs, prompt_id |-> pid]>>]
Raised(exc) == [NoResponse EXCEPT !.raised = TRUE, !.exc = exc]

NoEvent == [shape |-> "none", input |-> NoInput]
NoCall == [ret |-> None, raised |-> FALSE]

\* the values shared by the initial states
IdleState ==
    /\ event = NoEvent
    /\ workflow = None
    /\ attempt = 0
    /\ elapsed = 0
    /\ result = NoResult
    /\ cursor = 0
    /\ images = <<>>
    /\ response = NoResponse
    /\ attempts = <<>>
    /\ sleeps = <<>>
    /\ nHist = 0
    /\ nFail = 0
    /\ lastHist = NoHist
    /\ fetches = <<>>
    /\ ovBefore = <<>>
    /\ ovOut = NoCall
    /\ ovSecond = NoCall
    /\ ovRepeat = NoCall
    /\ posted = NoId
    /\ histId = NoId

----------------------------------------------------------------------------
(* apply_workflow_overrides called on its own *)

\* values random.randint(0, 2**32 - 1) may return: both ends of the range
\* and the seed the template already has
SeedDraws == { <<0, 0>>, <<0, 42>>, <<HALF - 1, HALF - 1>> }

\* line 330: random.randint is called only for overrides with seed null
Draws(overrides) ==
    IF "seed" \in DOMAIN overrides /\ overrides["seed"] = Null THEN SeedDraws ELSE { <<0, 0>> }

InitOverrides ==
    /\ IdleState
    /\ reqs = <<>>
    /\ WORKFLOW_FILE = FullShape
    /\ DEFAULT_WORKFLOW = None
    /\ \E s \in WorkflowShapes : heap = LoadDoc(<<>>, s, "tpl")
    /\ ovIn = Len(heap)
    /\ ovArg \in OverrideMaps(MaxOverrideKeys)
    /\ pc = "ov_call"
    /\ prompt_id = NoId
    /\ timeout = 0

call_apply_workflow_overrides ==
    /\ pc = "ov_call"
    /\ \E rnd \in Draws(ovArg) :
         \E r \in { apply_workflow_overrides(heap, ovIn, ovArg, rnd) } :
             /\ heap' = r.heap
             /\ ovOut' = [ret |-> r.ret, raised |-> r.raised]
    /\ ovBefore' = Value(heap, ovIn)
    /\ pc' = "ov_done"
    /\ UNCHANGED << WORKFLOW_FILE, DEFAULT_WORKFLOW, event, workflow, attempt,
                    prompt_id, timeout, elapsed, result, cursor, images, response,
                    attempts, sleeps, nHist, nFail, lastHist, fetches, ovIn, ovArg,
                    ovSecond, ovRepeat, posted, histId, reqs >>

\* the call on the document the first call returned, after a second call;
\* there is none when the first call raised
RepeatOnResult(second, first, overrides, rnd) ==
    IF first.raised
    THEN [heap |-> second.heap, ret |-> None, raised |-> FALSE]
    ELSE apply_workflow_overrides(second.heap, first.ret, overrides, rnd)

\* the same overrides applied once more to the same input document, and
\* then to the document the first call returned
call_again ==
    /\ pc = "ov_done"
    /\ \E rnd2, rnd3 \in Draws(ovArg) :
         \E r2 \in { apply_workflow_overrides(heap, ovIn, ovArg, rnd2) } :
             \E r3 \in { RepeatOnResult(r2, ovOut, ovArg, rnd3) } :
                 /\ heap' = r3.heap
                 /\ ovSecond' = [ret |-> r2.ret, raised |-> r2.raised]
                 /\ ovRepeat' = [ret |-> r3.ret, raised |-> r3.raised]
    /\ pc' = "ov_again"
    /\ UNCHANGED << WORKFLOW_FILE, DEFAULT_WORKFLOW, event, workflow, attempt,
                    prompt_id, timeout, elapsed, result, cursor, images, response,
                    attempts, sleeps, nHist, nFail, lastHist, fetches, ovIn, ovArg,
                    ovBefore, ovOut, posted, histId, reqs >>

NextOverrides ==
    \/ call_apply_workflow_overrides
    \/ call_again

SpecOverrides == InitOverrides /\ [][NextOverrides]_vars

----------------------------------------------------------------------------
(* handler: from the request to the first submission attempt *)

\* load_default_workflow: ok says whether the file can be read and parsed
load_default_workflow(ok) ==
    IF ok THEN [heap |-> LoadDoc(<<>>, WORKFLOW_FILE, "tpl"), raised |-> FALSE]
    ELSE [heap |-> <<>>, raised |-> TRUE]

\* the objects that outlive a request: the loaded template
BaseHeap == IF DEFAULT_WORKFLOW = None THEN <<>> ELSE SubSeq(heap, 1, DEFAULT_WORKFLOW)

\* `workflow` is the last object of heap h
Selected(h, dw) == [heap |-> h, dw |-> dw, wf |-> Len(h), raised |-> FALSE]

\* lines 420-428: the provided workflow, or a deep copy of the template,
\* which is loaded first when the startup load had failed
SelectWorkflow(input_data, ok) ==
    IF input_data.workflow.kind = "doc"
    THEN Selected(LoadDoc(BaseHeap, input_data.workflow.shape, "usr"), DEFAULT_WORKFLOW)
    ELSE IF DEFAULT_WORKFLOW # None
    THEN Selected(deepcopy(BaseHeap, DEFAULT_WORKFLOW).heap, DEFAULT_WORKFLOW)
    ELSE IF load_default_workflow(ok).raised
    THEN [heap |-> <<>>, dw |-> None, wf |-> None, raised |-> TRUE]
    ELSE Selected(deepcopy(load_default_workflow(ok).heap,
                           Len(load_default_workflow(ok).heap)).heap,
                  Len(load_default_workflow(ok).heap))

\* lines 430-434, the call of apply_workflow_overrides has returned ovr
AfterOverrides(sel, ovr) ==
    IF ovr.raised
    THEN [outcome |-> "raised", heap |-> ovr.heap, dw |-> sel.dw, wf |-> None,
          response |-> Raised("IndexError")]
    ELSE [outcome |-> "ready", heap |-> ovr.heap, dw |-> sel.dw, wf |-> ovr.ret,
          response |-> NoResponse]

\* lines 425-434, the workflow has been selected as sel
AfterSelect(input_data, sel, rnd) ==
    IF sel.raised
    THEN [outcome |-> "raised", heap |-> sel.heap, dw |-> sel.dw, wf |-> None,
          response |-> Raised("FileNotFoundError")]
    ELSE IF ~Truthy(input_data.overrides)
    THEN [outcome |-> "ready", heap |-> sel.heap, dw |-> sel.dw, wf |-> sel.wf,
          response |-> NoResponse]
    ELSE AfterOverrides(sel, apply_workflow_overrides(sel.heap, sel.wf,
                                                      input_data.overrides.map, rnd))

\* event.get("input", {})
InputData(e) == IF e.input.shape = "absent" THEN NoInput ELSE e.input

\* lines 418-434: the workflow is chosen and the overrides, if any, applied.
\* outcome: "raised" or "ready"
PrepareWorkflow(e, ok, rnd) ==
    AfterSelect(InputData(e), SelectWorkflow(InputData(e), ok), rnd)

\* a handler that does not look at the result of validate_input
HandlerPrepare_unchecked(e, ok, rnd) == PrepareWorkflow(e, ok, rnd)

\* lines 403-434.  outcome: "invalid" (validation failed), "raised" or "ready"
HandlerPrepare(e, ok, rnd) ==
    IF ~validate_input(e).valid
    THEN [outcome |-> "invalid", heap |-> BaseHeap, dw |-> DEFAULT_WORKFLOW, wf |-> None,
          response |-> Failure(<<"Validation error: ">> \o validate_input(e).msg)]
    ELSE PrepareWorkflow(e, ok, rnd)

HandlerWorkflows ==
    { NoWorkflow, [NoWorkflow EXCEPT !.kind = "falsy"] }
    \cup { [kind |-> "doc", shape |-> s] : s \in { FullShape, ShortShape, NoUnitShape } }

HandlerOverrides ==
    { NoOverrides, [NoOverrides EXCEPT !.shape = "falsy"], [NoOverrides EXCEPT !.shape = "truthy"] }
    \cup { [shape |-> "dict", map |-> m] :
             m \in OverrideMaps(1) \cup { ("seed" :> Null) @@ ("steps" :> Num(20)) } }

Events ==
    { [shape |-> "other", input |-> NoInput],
      [shape |-> "dict", input |-> NoInput],
      [shape |-> "dict", input |-> [NoInput EXCEPT !.shape = "other"]] }
    \cup { [shape |-> "dict", input |-> [shape |-> "dict", workflow |-> w, overrides |-> o]] :
             w \in HandlerWorkflows, o \in HandlerOverrides }

\* a request arrives and the handler runs up to its call of queue_prompt
handler_start ==
    /\ pc = "idle"
    /\ \E e \in Events, ok \in BOOLEAN :
       \E rnd \in Draws(InputData(e).overrides.map) :
         \E p \in { HandlerPrepare(e, ok, rnd) } :
             /\ event' = e
             /\ heap' = p.heap
             /\ DEFAULT_WORKFLOW' = p.dw
             /\ workflow' = p.wf
             /\ response' = p.response
             /\ pc' = IF p.outcome = "ready" THEN "queue" ELSE "done"
    /\ UNCHANGED << WORKFLOW_FILE, attempt, prompt_id, timeout, elapsed, result, cursor,
                    images, attempts, sleeps, nHist, nFail, lastHist, fetches,
                    ovIn, ovArg, ovBefore, ovOut,
                    ovSecond, ovRepeat, posted, histId, reqs >>

----------------------------------------------------------------------------
(* queue_prompt *)

\* does the attempt end in the `except RequestException` clause: a
\* transport-level failure, or response.json() raising JSONDecodeError
PostRaises(r) == r.kind \in { "fail", "badjson" }

Count(n) == IF n < MaxFailCount THEN n + 1 ELSE n

\* a wait that does not grow
Backoff_constant(k) == 1

\* time.sleep(2 ** attempt)
Backoff(k) == 2 ^ k

\* one iteration of the loop over range(MAX_RETRIES)
queue_prompt ==
    /\ pc = "queue"
    /\ \E r \in PostResponses :
         /\ attempts' = Append(attempts, r)
         /\ posted' = r.id
         /\ IF PostRaises(r)
            THEN IF attempt < MAX_RETRIES - 1
                 THEN /\ sleeps' = Append(sleeps, Backoff(attempt))
                      /\ attempt' = attempt + 1
                      /\ UNCHANGED << pc, prompt_id >>
                 ELSE /\ prompt_id' = NoId
                      /\ pc' = "queued"
                      /\ UNCHANGED << sleeps, attempt >>
            ELSE /\ prompt_id' = r.id
                 /\ pc' = "queued"
                 /\ UNCHANGED << sleeps, attempt >>
    /\ UNCHANGED << heap, WORKFLOW_FILE, DEFAULT_WORKFLOW, event, workflow, timeout,
                    elapsed, result, cursor, images, response, nHist, nFail,
                    lastHist, fetches, ovIn, ovArg, ovBefore, ovOut,
                    ovSecond, ovRepeat, histId, reqs >>

\* `if not prompt_id` after queue_prompt
SubmissionFailed_never(id) == FALSE

SubmissionFailed(id) == id = NoId

\* lines 437-447: no prompt_id ends the request; otherwise polling starts
\* with the default timeout.  The request's event and workflow are not used
\* again, and are dropped with the objects only they refer to; the log of
\* the submission is closed.
handler_after_queue ==
    /\ pc = "queued"
    /\ IF SubmissionFailed(prompt_id)
       THEN /\ response' = Failure(<<"Failed to submit workflow to ComfyUI">>)
            /\ pc' = "done"
            /\ UNCHANGED << heap, event, workflow, attempt, timeout, attempts, sleeps >>
       ELSE /\ pc' = "wait"
            /\ timeout' = JOB_TIMEOUT
            /\ heap' = BaseHeap
            /\ event' = NoEvent
            /\ workflow' = None
            /\ attempt' = 0
            /\ attempts' = <<>>
            /\ sleeps' = <<>>
            /\ UNCHANGED response
    /\ UNCHANGED << WORKFLOW_FILE, DEFAULT_WORKFLOW, prompt_id, elapsed, result,
                    cursor, images, nHist, nFail, lastHist,
                    fetches, ovIn, ovArg, ovBefore, ovOut,
                    ovSecond, ovRepeat, posted, histId, reqs >>

----------------------------------------------------------------------------
(* get_history and wait_for_completion *)

\* what get_history returns for the engine's answer r: None for a failed
\* request or a body that does not parse, else the parsed object
get_history(r) ==
    IF r.kind = "ok" THEN [none |-> FALSE, key |-> r.key, entry |-> r.entry]
    ELSE [none |-> TRUE, key |-> NoId, entry |-> NoEntry]

\* the error sentinel is looked at before the completion flag
Classify_error_first(id, history) ==
    IF history.none THEN "retry"
    ELSE IF history.key = id /\ history.entry.str = "execution error" THEN "error"
    ELSE IF history.key = id /\ history.entry.completed THEN "completed"
    ELSE "pending"

\* a failed status query is taken for an execution error
Classify_fail_is_error(id, history) ==
    IF history.none THEN "error"
    ELSE IF history.key = id /\ history.entry.completed THEN "completed"
    ELSE IF history.key = id /\ history.entry.str = "execution error" THEN "error"
    ELSE "pending"

\* a completed entry is taken whatever identifier it is filed under
Classify_any_key(id, history) ==
    IF history.none THEN "retry"
    ELSE IF history.entry.completed THEN "completed"
    ELSE IF history.key = id /\ history.entry.str = "execution error" THEN "error"
    ELSE "pending"

\* the loop condition `time.time() - start_time < timeout`, off by one
LoopRuns_inclusive(e, t) == e <= t

LoopRuns(e, t) == e < t

\* lines 150-173: what one iteration makes of the history
Classify(id, history) ==
    IF history.none THEN "retry"
    ELSE IF history.key = id /\ history.entry.completed THEN "completed"
    ELSE IF history.key = id /\ history.entry.str = "execution error" THEN "error"
    ELSE "pending"

\* one iteration of the polling loop; the status query of an iteration
\* that goes on to sleep takes d seconds.  The engine's answer is logged
\* when the call is observed on its own (traced); inside a request only the
\* answer the call returns on is.
PollOnce(traced) ==
    /\ pc = "wait"
    /\ LoopRuns(elapsed, timeout)
    /\ histId' = prompt_id
    /\ \E r \in HistoryResponses(prompt_id) :
         LET history == get_history(r)
             c == Classify(prompt_id, history)
         IN  /\ lastHist' = IF traced \/ c \in { "completed", "error" } THEN r ELSE lastHist
             /\ nHist' = Count(nHist)
             /\ nFail' = IF history.none THEN Count(nFail) ELSE nFail
             /\ CASE c = "completed" ->
                       /\ result' = [status |-> "completed", error |-> <<>>, data |-> history.entry]
                       /\ pc' = "waited"
                       /\ elapsed' = 0
                  [] c = "error" ->
                       /\ result' = [status |-> "error",
                                     error |-> IF history.entry.exception = <<>>
                                               THEN <<"Unknown error">>
                                               ELSE history.entry.exception,
                                     data |-> NoEntry]
                       /\ pc' = "waited"
                       /\ elapsed' = 0
                  [] OTHER ->
                       /\ \E d \in 0..HISTORY_TIMEOUT : elapsed' = elapsed + d + POLL_INTERVAL
                       /\ UNCHANGED << result, pc >>
    /\ UNCHANGED << heap, WORKFLOW_FILE, DEFAULT_WORKFLOW, event, workflow, attempt,
                    prompt_id, timeout, cursor, images, response, attempts, sleeps,
                    fetches, ovIn, ovArg, ovBefore, ovOut,
                    ovSecond, ovRepeat, posted, reqs >>

wait_for_completion == PollOnce(FALSE)

wait_for_completion_traced == PollOnce(TRUE)

\* the loop condition fails: the deadline has passed
wait_timeout ==
    /\ pc = "wait"
    /\ ~LoopRuns(elapsed, timeout)
    /\ result' = [status |-> "timeout",
                  error |-> <<"Execution timed out after ", ToString(timeout), " seconds">>,
                  data |-> NoEntry]
    /\ pc' = "waited"
    /\ UNCHANGED << heap, WORKFLOW_FILE, DEFAULT_WORKFLOW, event, workflow, attempt,
                    prompt_id, timeout, elapsed, cursor, images, response, attempts,
                    sleeps, nHist, nFail, lastHist, fetches, ovIn, ovArg, ovBefore, ovOut,
                    ovSecond, ovRepeat, posted, histId, reqs >>

----------------------------------------------------------------------------
(* extract_images and the end of handler *)

\* lines 449-464: timeout and execution error end the request; a completed
\* result goes to extract_images
handler_after_wait ==
    /\ pc = "waited"
    /\ IF result.status \in { "timeout", "error" }
       THEN /\ response' = Failure(result.error)
            /\ pc' = "done"
            /\ UNCHANGED << cursor, images >>
       ELSE /\ pc' = "extract"
            /\ cursor' = 1
            /\ images' = <<>>
            /\ UNCHANGED response
    /\ UNCHANGED << heap, WORKFLOW_FILE, DEFAULT_WORKFLOW, event, workflow, attempt,
                    prompt_id, timeout, elapsed, result, attempts, sleeps, nHist,
                    nFail, lastHist, fetches, ovIn, ovArg, ovBefore, ovOut,
                    ovSecond, ovRepeat, posted, histId, reqs >>

\* the image descriptors in the order the two nested loops visit them
RECURSIVE Flatten(_)
Flatten(outputs) ==
    IF outputs = <<>> THEN <<>>
    ELSE (IF Head(outputs).hasImages THEN Head(outputs).images ELSE <<>>)
         \o Flatten(Tail(outputs))

\* base64.b64encode(image_bytes).decode('utf-8') of the content of file f
Base64(f) == <<"base64", <<"bytes", f>>>>

\* what get_image returns for the engine's answer v: None for a failed
\* request, else response.content
get_image(f, v) ==
    IF v = "fail" THEN [none |-> TRUE, empty |-> FALSE]
    ELSE [none |-> FALSE, empty |-> (v = "empty")]

\* `if image_bytes is not None:`
ImageKept_not_none(image_bytes) == ~image_bytes.none

\* `if image_bytes:` is false for None and for b""
ImageKept(image_bytes) == ~image_bytes.none /\ ~image_bytes.empty

ImageRecord(img_info) ==
    [filename |-> img_info.filename, subfolder |-> img_info.subfolder,
     type |-> img_info.type, data |-> Base64(img_info.filename)]

\* one iteration of the loop over the images: a descriptor without
\* filename is passed over, any other is fetched
extract_images ==
    /\ pc = "extract"
    /\ cursor <= Len(Flatten(result.data.outputs))
    /\ LET img_info == Flatten(result.data.outputs)[cursor]
       IN  IF img_info.filename = ""
           THEN UNCHANGED << images, fetches >>
           ELSE \E v \in ViewResponses :
                  /\ fetches' = Append(fetches, [filename |-> img_info.filename, answer |-> v])
                  /\ images' = IF ImageKept(get_image(img_info.filename, v))
                               THEN Append(images, ImageRecord(img_info))
                               ELSE images
    /\ cursor' = cursor + 1
    /\ UNCHANGED << heap, WORKFLOW_FILE, DEFAULT_WORKFLOW, pc, event, workflow, attempt,
                    prompt_id, timeout, elapsed, result, response, attempts, sleeps,
                    nHist, nFail, lastHist, ovIn, ovArg, ovBefore, ovOut,
                    ovSecond, ovRepeat, posted, histId, reqs >>

\* lines 256-257 and 466-478: extract_images returns and handler answers
handler_return ==
    /\ pc = "extract"
    /\ cursor > Len(Flatten(result.data.outputs))
    /\ response' = Success(images, prompt_id)
    /\ pc' = "done"
    /\ UNCHANGED << heap, WORKFLOW_FILE, DEFAULT_WORKFLOW, event, workflow, attempt,
                    prompt_id, timeout, elapsed, result, cursor, images, attempts,
                    sleeps, nHist, nFail, lastHist, fetches, ovIn, ovArg, ovBefore, ovOut,
                    ovSecond, ovRepeat, posted, histId, reqs >>

\* runpod.serverless.start: the worker is ready for the next request; the
\* locals of the finished call are gone
next_request ==
    /\ pc = "done"
    /\ pc' = "idle"
    /\ heap' = BaseHeap
    /\ event' = NoEvent
    /\ workflow' = None
    /\ attempt' = 0
    /\ prompt_id' = NoId
    /\ timeout' = 0
    /\ elapsed' = 0
    /\ result' = NoResult
    /\ cursor' = 0
    /\ images' = <<>>
    /\ response' = NoResponse
    /\ attempts' = <<>>
    /\ sleeps' = <<>>
    /\ nHist' = 0
    /\ nFail' = 0
    /\ lastHist' = NoHist
    /\ fetches' = <<>>
    /\ posted' = NoId
    /\ histId' = NoId
    /\ UNCHANGED << WORKFLOW_FILE, DEFAULT_WORKFLOW, ovIn, ovArg, ovBefore, ovOut,
                    ovSecond, ovRepeat, reqs >>

----------------------------------------------------------------------------
(* The handler serving requests *)

\* the startup code: the workflow file is loaded, or the load fails and
\* DEFAULT_WORKFLOW stays None
Init ==
    /\ IdleState
    /\ reqs = <<>>
    /\ WORKFLOW_FILE = FullShape
    /\ \E ok \in BOOLEAN :
         /\ heap = load_default_workflow(ok).heap
         /\ DEFAULT_WORKFLOW = IF ok THEN Len(heap) ELSE None
    /\ pc = "idle"
    /\ prompt_id = NoId
    /\ timeout = 0
    /\ ovIn = None
    /\ ovArg = EmptyMap

Next ==
    \/ handler_start
    \/ queue_prompt
    \/ handler_after_queue
    \/ wait_for_completion
    \/ wait_timeout
    \/ handler_after_wait
    \/ extract_images
    \/ handler_return
    \/ next_request

Spec == Init /\ [][Next]_vars

\* A running handler goes on: every HTTP call returns or fails within its
\* timeout (30 s for POST /prompt and GET /view, 10 s for GET /history) and
\* every time.sleep returns.  Nothing obliges a request to arrive.
SpecLive ==
    /\ Init
    /\ [][Next]_vars
    /\ WF_vars(queue_prompt)
    /\ WF_vars(handler_after_queue)
    /\ WF_vars(wait_for_completion)
    /\ WF_vars(wait_timeout)
    /\ WF_vars(handler_after_wait)
    /\ WF_vars(extract_images)
    /\ WF_vars(handler_return)

----------------------------------------------------------------------------
(* wait_for_completion called on its own with a timeout of the caller *)

InitWait ==
    /\ IdleState
    /\ reqs = <<>>
    /\ WORKFLOW_FILE = FullShape
    /\ DEFAULT_WORKFLOW = None
    /\ heap = <<>>
    /\ ovIn = None
    /\ ovArg = EmptyMap
    /\ pc = "wait"
    /\ prompt_id \in PromptIds
    /\ timeout \in 0..MaxTimeout

NextWait == wait_for_completion_traced \/ wait_timeout


SpecWait == InitWait /\ [][NextWait]_vars

----------------------------------------------------------------------------
(* Several requests in the worker at once: the part of handler that works  *)
(* on workflow documents (lines 403-437), one step per statement that      *)
(* reads or writes shared objects, interleaved in any order.  A request    *)
(* running to its submission before the next one starts is one of the      *)
(* orders.                                                                 *)

NewRequest == [pc |-> "new", event |-> NoEvent, workflow |-> None]

ConcurrentOverrides ==
    { NoOverrides }
    \cup { [shape |-> "dict", map |-> m] :
             m \in { "steps" :> Num(20), "prompt" :> Str("cat") } }

\* requests for the template
ConcurrentEvents ==
    { [shape |-> "dict", input |-> [shape |-> "dict", workflow |-> NoWorkflow, overrides |-> o]] :
        o \in ConcurrentOverrides \cup { [NoOverrides EXCEPT !.shape = "truthy"] } }

\* Reference counting: the objects no reference leads to are freed.  The
\* references are the global dw and the `workflow` locals of the requests
\* rs; the objects that stay keep their order.
Freed(h, dw, rs) ==
    LET live == UNION { Reach(h, a) :
                          a \in ({dw} \cup { rs[j].workflow : j \in DOMAIN rs }) \ {None} }
        at(a) == IF a = None THEN None ELSE Cardinality({ x \in live : x <= a })
    IN  [heap |-> [k \in 1..Cardinality(live) |->
                      [h[CHOOSE a \in live : at(a) = k] EXCEPT
                          !.refs = [n \in DOMAIN @ |-> at(@[n])]]],
         dw |-> at(dw),
         reqs |-> [j \in DOMAIN rs |-> [rs[j] EXCEPT !.workflow = at(@)]]]

\* the variables of the one-request-at-a-time handler and of the direct calls
serial_vars ==
    << WORKFLOW_FILE, pc, event, workflow, attempt, prompt_id, timeout, elapsed, result,
       cursor, images, response, attempts, sleeps, nHist, nFail, lastHist, fetches,
       ovIn, ovArg, ovBefore, ovOut, ovSecond, ovRepeat, posted, histId >>

\* lines 409-424: validation; a provided workflow is the request's own document
request_validate(i) ==
    /\ pc = "serving"
    /\ reqs[i].pc = "new"
    /\ \E e \in ConcurrentEvents :
         IF ~validate_input(e).valid
         THEN /\ reqs' = [reqs EXCEPT ![i] = [pc |-> "failed", event |-> e, workflow |-> None]]
              /\ UNCHANGED heap
         ELSE IF InputData(e).workflow.kind = "doc"
         THEN /\ heap' = LoadDoc(heap, InputData(e).workflow.shape, "usr")
              /\ reqs' = [reqs EXCEPT ![i] = [pc |-> "overrides", event |-> e,
                                              workflow |-> Len(heap')]]
         ELSE /\ reqs' = [reqs EXCEPT ![i] = [pc |-> "template", event |-> e, workflow |-> None]]
              /\ UNCHANGED heap
    /\ UNCHANGED DEFAULT_WORKFLOW
    /\ UNCHANGED serial_vars

\* line 425: `if DEFAULT_WORKFLOW is None`
request_check_template(i) ==
    /\ pc = "serving"
    /\ reqs[i].pc = "template"
    /\ reqs' = [reqs EXCEPT ![i].pc = IF DEFAULT_WORKFLOW = None THEN "load" ELSE "copy"]
    /\ UNCHANGED << heap, DEFAULT_WORKFLOW >>
    /\ UNCHANGED serial_vars

\* line 426: load_default_workflow() assigns the global, or raises
request_load_template(i) ==
    /\ pc = "serving"
    /\ reqs[i].pc = "load"
    /\ \E ok \in BOOLEAN :
         IF load_default_workflow(ok).raised
         THEN /\ reqs' = [reqs EXCEPT ![i].pc = "raised"]
              /\ UNCHANGED << heap, DEFAULT_WORKFLOW >>
         ELSE \E n \in { Freed(LoadDoc(heap, WORKFLOW_FILE, "tpl"),
                                Len(LoadDoc(heap, WORKFLOW_FILE, "tpl")),
                                [reqs EXCEPT ![i].pc = "copy"]) } :
                /\ heap' = n.heap
                /\ DEFAULT_WORKFLOW' = n.dw
                /\ reqs' = n.reqs
    /\ UNCHANGED serial_vars

\* line 427: workflow = copy.deepcopy(DEFAULT_WORKFLOW)
request_copy_template(i) ==
    /\ pc = "serving"
    /\ reqs[i].pc = "copy"
    /\ \E c \in { deepcopy(heap, DEFAULT_WORKFLOW) } :
         /\ heap' = c.heap
         /\ reqs' = [reqs EXCEPT ![i].pc = "overrides", ![i].workflow = c.addr]
    /\ UNCHANGED DEFAULT_WORKFLOW
    /\ UNCHANGED serial_vars

\* lines 431-437: the overrides are applied and the workflow is handed to
\* queue_prompt
request_apply_overrides(i) ==
    /\ pc = "serving"
    /\ reqs[i].pc = "overrides"
    /\ IF ~Truthy(InputData(reqs[i].event).overrides)
       THEN /\ reqs' = [reqs EXCEPT ![i].pc = "submit"]
            /\ UNCHANGED << heap, DEFAULT_WORKFLOW >>
       ELSE \E rnd \in Draws(InputData(reqs[i].event).overrides.map) :
              \E r \in { apply_workflow_overrides(heap, reqs[i].workflow,
                                                  InputData(reqs[i].event).overrides.map, rnd) } :
                \E n \in { Freed(r.heap, DEFAULT_WORKFLOW,
                                  [reqs EXCEPT ![i].pc = IF r.raised THEN "raised" ELSE "submit",
                                               ![i].workflow = r.ret]) } :
                    /\ heap' = n.heap
                    /\ DEFAULT_WORKFLOW' = n.dw
                    /\ reqs' = n.reqs
    /\ UNCHANGED serial_vars

InitConcurrent ==
    /\ IdleState
    /\ WORKFLOW_FILE = FullShape
    /\ \E ok \in BOOLEAN :
         /\ heap = load_default_workflow(ok).heap
         /\ DEFAULT_WORKFLOW = IF ok THEN Len(heap) ELSE None
    /\ pc = "serving"
    /\ prompt_id = NoId
    /\ timeout = 0
    /\ ovIn = None
    /\ ovArg = EmptyMap
    /\ reqs = [i \in 1..MaxRequests |-> NewRequest]

NextConcurrent ==
    \E i \in 1..MaxRequests :
        \/ request_validate(i)
        \/ request_check_template(i)
        \/ request_load_template(i)
        \/ request_copy_template(i)
        \/ request_apply_overrides(i)

SpecConcurrent == InitConcurrent /\ [][NextConcurrent]_vars

----------------------------------------------------------------------------
(* Properties of handler *)

FailureShape(r) ==
    ~r.raised /\ r.status = "FAILED" /\ r.output = Null /\ IsString(r.error)
SuccessShape(r) ==
    ~r.raised /\ r.status = "COMPLETED" /\ r.output # Null /\ r.error = Null

\* C1: every request ends with handler returning a response of the success
\* shape or of the failure shape; handler never raises.
C1_AlwaysEnvelope ==
    pc = "done" => (SuccessShape(response) \/ FailureShape(response))

NoEngineCall == attempts = <<>> /\ nHist = 0 /\ fetches = <<>>

\* C2: a request validate_input rejects is answered with the FAILED envelope
\* and without any POST /prompt, GET /history or GET /view.
C2_InvalidNeverReachesEngine ==
    (pc = "done" /\ event \in Events /\ ~validate_input(event).valid)
        => (FailureShape(response) /\ NoEngineCall)

C2_Witness ==
    /\ pc = "done"
    /\ event \in Events
    /\ event.input.overrides.shape = "dict"
    /\ ~validate_input(event).valid
    /\ response.status = "FAILED"

AllTransportFailures ==
    /\ Len(attempts) = 3
    /\ \A i \in 1..3 : attempts[i].kind = "fail"

\* C3: when all 3 submission attempts fail at transport level, handler
\* answers FAILED with the submission-failure message, and no GET /history
\* and no GET /view is issued in that request.
C3_SubmissionFailureIsFatal ==
    /\ [](AllTransportFailures =>
            /\ nHist = 0
            /\ fetches = <<>>
            /\ pc \in { "queued", "done" }
            /\ pc = "done" => response = Failure(<<"Failed to submit workflow to ComfyUI">>))
    /\ [][(pc = "queued" /\ AllTransportFailures) =>
            /\ pc' = "done"
            /\ response' = Failure(<<"Failed to submit workflow to ComfyUI">>)
            /\ nHist' = 0
            /\ fetches' = <<>>]_vars

C3_Witness ==
    pc = "done" /\ AllTransportFailures /\ response.status = "FAILED"

\* C4: queue_prompt issues between 1 and 3 POSTs; a further POST follows
\* only an attempt that failed at transport level (never one that got a 2xx
\* answer), and an answer with a job identifier is returned as it is.
C4_RetryOnlyAfterTransportFailure ==
    /\ Len(attempts) <= 3
    /\ pc = "queued" => Len(attempts) >= 1
    /\ \A i \in 1..(Len(attempts) - 1) : attempts[i].kind = "fail"
    /\ (pc = "queued" /\ attempts[Len(attempts)].kind = "id")
           => prompt_id = attempts[Len(attempts)].id

\* C5: queue_prompt returns None when an answer could not be parsed, when
\* an answer had no job identifier, or when all 3 attempts failed.
C5_NoHandleCases ==
    (pc = "queued" /\ ( \/ \E i \in 1..Len(attempts) : attempts[i].kind \in { "badjson", "noid" }
                        \/ AllTransportFailures ))
        => prompt_id = NoId

----------------------------------------------------------------------------
(* Properties of wait_for_completion *)

CompletedAnswer(r) == r.kind = "ok" /\ r.key = prompt_id /\ r.entry.completed
ErrorAnswer(r) ==
    r.kind = "ok" /\ r.key = prompt_id /\ ~r.entry.completed /\ r.entry.str = "execution error"

\* C6: wait_for_completion returns completed, error or timeout and nothing
\* else: completed, with the entry, exactly on an answer whose entry for the
\* handle has the completion flag; error, with the engine's exception
\* message ("Unknown error" when there is none), exactly on an answer whose
\* entry has the error sentinel and no completion flag; timeout only when
\* the last answer was neither.  While the call runs, no answer was either.
C6_TerminalOutcomes ==
    /\ pc = "waited" =>
         \/ /\ result.status = "completed"
            /\ CompletedAnswer(lastHist)
            /\ result.data = lastHist.entry
         \/ /\ result.status = "error"
            /\ ErrorAnswer(lastHist)
            /\ result.error = IF lastHist.entry.exception = <<>>
                              THEN <<"Unknown error">> ELSE lastHist.entry.exception
         \/ /\ result.status = "timeout"
            /\ ~CompletedAnswer(lastHist)
            /\ ~ErrorAnswer(lastHist)
    /\ pc = "wait" => (~CompletedAnswer(lastHist) /\ ~ErrorAnswer(lastHist))

C6_Witness ==
    /\ pc = "waited"
    /\ result.status = "completed"
    /\ lastHist.entry.str = "execution error"
    /\ nHist > 1

FailedAnswer(r) == r.kind \in { "fail", "badjson" }
AbsentAnswer(r) == r.kind = "ok" /\ r.key # prompt_id

\* C8: after a failed status query, or an answer without the handle, the
\* call goes on polling and can only end in timeout by the deadline; and
\* an answer reporting completion gives completed whatever the number of
\* failed queries before it.
C8_FailedQueryIsPending ==
    /\ (FailedAnswer(lastHist) \/ AbsentAnswer(lastHist))
           => (pc = "wait" \/ (pc = "waited" /\ result.status = "timeout"))
    /\ (nFail > 0 /\ CompletedAnswer(lastHist))
           => (pc = "waited" /\ result.status = "completed")

C8_Witness ==
    /\ pc = "waited"
    /\ result.status = "completed"
    /\ nFail = MaxFailCount

----------------------------------------------------------------------------
(* Properties of extract_images *)

HasName(d) == d.filename # ""
Answered(f) == f.answer # "fail"
AnsweredWithContent(f) == f.answer = "bytes"

\* the records of the fetched images fs, in their order
RecordsOf(fs) ==
    [i \in 1..Len(fs) |->
        [filename |-> fs[i].filename, subfolder |-> "", type |-> "output",
         data |-> Base64(fs[i].filename)]]

\* every descriptor with a filename was fetched once, in manifest order
FetchedAll ==
    [i \in 1..Len(fetches) |-> fetches[i].filename]
        = [i \in 1..Len(SelectSeq(Flatten(result.data.outputs), HasName)) |->
              SelectSeq(Flatten(result.data.outputs), HasName)[i].filename]

\* C9 as claimed: the images of a COMPLETED answer are the descriptors whose
\* fetch succeeded, in manifest order, and every image of the manifest was
\* fetched whatever happened to the ones before it.
C9_ImagesAreAnsweredFetches ==
    (pc = "done" /\ response.status = "COMPLETED") =>
        /\ FetchedAll
        /\ response.output[2].images = RecordsOf(SelectSeq(fetches, Answered))

\* C9 as amended: the images of a COMPLETED answer are the descriptors whose
\* fetch succeeded with a non-empty body, in manifest order; every
\* descriptor with a filename was fetched whatever happened to the ones
\* before it, and a manifest that was read to its end is answered COMPLETED.
C9_ImagesAreFetchesWithContent ==
    /\ (pc = "done" /\ response.status = "COMPLETED") =>
         /\ FetchedAll
         /\ response.output[2].images = RecordsOf(SelectSeq(fetches, AnsweredWithContent))
    /\ (pc = "done" /\ result.status = "completed") => response.status = "COMPLETED"

C9_Witness ==
    /\ pc = "done"
    /\ response.status = "COMPLETED"
    /\ Len(fetches) = 3
    /\ fetches[1].answer = "fail"
    /\ fetches[2].answer = "fail"
    /\ fetches[3].answer = "bytes"
    /\ Len(response.output[2].images) = 1

----------------------------------------------------------------------------
(* Properties of apply_workflow_overrides *)

\* C10: apply_workflow_overrides leaves its input document as it was, and
\* the document it returns shares no object with the input.
C10_InputNotMutated ==
    pc = "ov_done" =>
        /\ Value(heap, ovIn) = ovBefore
        /\ ~ovOut.raised =>
             /\ ovOut.ret # ovIn
             /\ Reach(heap, ovOut.ret) \cap Reach(heap, ovIn) = {}

C10_Witness ==
    /\ pc = "ov_done"
    /\ ~ovOut.raised
    /\ "seed" \in DOMAIN ovArg
    /\ ovArg["seed"] = Null
    /\ Value(heap, ovOut.ret) # ovBefore

----------------------------------------------------------------------------
(* Properties of requests handled side by side *)

\* the document in the workflow file, as a value
FileValue ==
    Value(LoadDoc(<<>>, WORKFLOW_FILE, "tpl"), Len(LoadDoc(<<>>, WORKFLOW_FILE, "tpl")))

\* the document request e starts from when it is alone in the worker
OwnDocument(e) ==
    IF InputData(e).workflow.kind = "doc"
    THEN LoadDoc(<<>>, InputData(e).workflow.shape, "usr")
    ELSE LoadDoc(<<>>, WORKFLOW_FILE, "tpl")

\* the documents request e may submit when it is alone in the worker
SubmittedAlone(e) ==
    IF ~Truthy(InputData(e).overrides)
    THEN { Value(OwnDocument(e), Len(OwnDocument(e))) }
    ELSE { Value(r.heap, r.ret) :
             r \in { x \in { apply_workflow_overrides(OwnDocument(e), Len(OwnDocument(e)),
                                                      InputData(e).overrides.map, rnd) :
                                rnd \in SeedDraws } : ~x.raised } }

\* C11: with requests interleaved in any order, the loaded template always
\* equals the document in the workflow file, the workflow of a request
\* shares no object with the template or with another request's workflow,
\* and the workflow a request submits is the one it would submit alone.
C11_TemplateIsolated ==
    /\ DEFAULT_WORKFLOW # None => Value(heap, DEFAULT_WORKFLOW) = FileValue
    /\ \A i \in DOMAIN reqs :
         reqs[i].workflow # None =>
            /\ DEFAULT_WORKFLOW # None =>
                   Reach(heap, reqs[i].workflow) \cap Reach(heap, DEFAULT_WORKFLOW) = {}
            /\ \A j \in DOMAIN reqs \ {i} :
                   reqs[j].workflow # None =>
                      Reach(heap, reqs[i].workflow) \cap Reach(heap, reqs[j].workflow) = {}
            /\ reqs[i].pc = "submit" =>
                   Value(heap, reqs[i].workflow) \in SubmittedAlone(reqs[i].event)

C11_Witness ==
    /\ DEFAULT_WORKFLOW # None
    /\ \A i \in DOMAIN reqs : reqs[i].pc = "submit"
    /\ \E i, j \in DOMAIN reqs :
         /\ InputData(reqs[i].event).workflow.kind = "absent"
         /\ InputData(reqs[j].event).workflow.kind = "absent"
         /\ InputData(reqs[i].event).overrides.map = ("steps" :> Num(20))
         /\ InputData(reqs[j].event).overrides.map = ("prompt" :> Str("cat"))
         /\ Value(heap, reqs[i].workflow) # Value(heap, reqs[j].workflow)

----------------------------------------------------------------------------
(* Properties of the submitted workflow *)

\* the positions of the parameterizable unit among the nodes of document w
UnitNodes(h, w) == { i \in 1..Len(h[w].refs) : h[h[w].refs[i]].id = SUBGRAPH_NODE_INDEX }

\* the widget values of the parameterizable unit of document w (<<>> when
\* the unit or its list is missing)
Widgets(h, w) ==
    IF UnitNodes(h, w) = {} THEN <<>>
    ELSE IF h[h[w].refs[Min(UnitNodes(h, w))]].refs = <<>> THEN <<>>
    ELSE h[h[h[w].refs[Min(UnitNodes(h, w))]].refs[1]].items

\* handler is about to call queue_prompt(workflow), or has called it
Submitting == pc \in { "queue", "queued" } /\ event \in Events

UsesTemplate(e) == InputData(e).workflow.kind # "doc"

\* C12: every workflow handler submits from the template, whose unit has
\* more than six widget values, has "randomize" in slot 6, with overrides
\* (with or without seed) and without overrides.
C12_SubmittedRandomizes ==
    (Submitting /\ UsesTemplate(event) /\ Len(Widgets(heap, workflow)) > 6)
        => Widgets(heap, workflow)[7] = Str("randomize")

----------------------------------------------------------------------------
(* Properties of apply_workflow_overrides called on its own *)

\* does validate_input accept a request with the override mapping m
ValidOverrides(m) ==
    validate_input([shape |-> "dict",
                    input |-> [shape |-> "dict", workflow |-> NoWorkflow,
                               overrides |-> [shape |-> "dict", map |-> m]]]).valid

\* the slots (counted from 0) the keys of m stand for
SlotsOf(m) == { override_map[k] : k \in DOMAIN m \cap DOMAIN override_map }

SeedIsNull(m) == "seed" \in DOMAIN m /\ m["seed"] = Null

\* C13: for every length of the widget-value list and every override set
\* that passes validation, seed null included, apply_workflow_overrides
\* returns without raising, the list keeps its length, and the slots no
\* override stands for (slot 6 apart) keep their values in their places.
C13_RangeSafe ==
    (pc = "ov_done" /\ ValidOverrides(ovArg)) =>
        /\ ~ovOut.raised
        /\ Len(Widgets(heap, ovOut.ret)) = Len(Widgets(heap, ovIn))
        /\ \A i \in 1..Len(Widgets(heap, ovIn)) :
              (i - 1 \notin SlotsOf(ovArg) /\ i # 7)
                  => Widgets(heap, ovOut.ret)[i] = Widgets(heap, ovIn)[i]

\* the keys of m that stand for slot i (counted from 0) with a value to
\* write: a non-null value, or the null of seed that asks for a fresh seed
WritersOf(m, i) ==
    { k \in DOMAIN m \cap DOMAIN override_map :
        override_map[k] = i /\ (m[k] # Null \/ k = "seed") }

\* C14: apply_workflow_overrides writes a slot only for a recognized key
\* present with a non-null value: a slot whose key is absent, or present
\* with null (seed apart), keeps the input's value, slot 6 apart; and a
\* key present with a non-null value has its value in its slot.
C14_WritesOnlyNonNull ==
    (pc = "ov_done" /\ ~ovOut.raised) =>
        \A i \in 1..Len(Widgets(heap, ovIn)) :
            /\ (i # 7 /\ WritersOf(ovArg, i - 1) = {})
                   => Widgets(heap, ovOut.ret)[i] = Widgets(heap, ovIn)[i]
            /\ \A k \in WritersOf(ovArg, i - 1) :
                   ovArg[k] # Null => Widgets(heap, ovOut.ret)[i] = ovArg[k]

----------------------------------------------------------------------------
(* Properties of the seed *)

SeedNullSteps == ("seed" :> Null) @@ ("steps" :> Num(20))

\* handler is submitting the template with the overrides m
SubmittingTemplateWith(m) ==
    /\ Submitting
    /\ UsesTemplate(event)
    /\ InputData(event).overrides.shape = "dict"
    /\ InputData(event).overrides.map = m

\* C15: with a template of ten widget slots, a request with overrides
\* {seed: null, steps: 20} submits a workflow with 20 in slot 3, an integer
\* of [0, 2^32 - 1] in slot 5, "randomize" in slot 6 and the template's
\* values in all other slots.
C15_SeedNullStepsTwenty ==
    SubmittingTemplateWith(SeedNullSteps) =>
        /\ Len(Widgets(heap, workflow)) = 10
        /\ Widgets(heap, workflow)[4] = Num(20)
        /\ InSeedRange(Widgets(heap, workflow)[6])
        /\ Widgets(heap, workflow)[7] = Str("randomize")
        /\ \A i \in (1..10) \ {4, 6, 7} :
              Widgets(heap, workflow)[i] = Widgets(heap, DEFAULT_WORKFLOW)[i]

C15_Witness ==
    /\ SubmittingTemplateWith(SeedNullSteps)
    /\ Len(Widgets(heap, DEFAULT_WORKFLOW)) = 10
    /\ Widgets(heap, workflow)[6] = Num32(HALF - 1, HALF - 1)
    /\ Widgets(heap, workflow)[6] # Widgets(heap, DEFAULT_WORKFLOW)[6]

----------------------------------------------------------------------------
(* Properties of repeated application *)

\* the address of the unit's widget-value list in document w, or None
UnitList(h, w) ==
    IF UnitNodes(h, w) = {} THEN None
    ELSE IF h[h[w].refs[Min(UnitNodes(h, w))]].refs = <<>> THEN None
    ELSE h[h[w].refs[Min(UnitNodes(h, w))]].refs[1]

\* document w without the values of the unit's list
Outline(h, w) ==
    IF UnitList(h, w) = None THEN Value(h, w)
    ELSE Value([h EXCEPT ![UnitList(h, w)].items = <<>>], w)

\* documents a and b are equal, but for slot 5 when the seed may differ
SameButSeed(h, a, b, seedMayDiffer) ==
    /\ Outline(h, a) = Outline(h, b)
    /\ Len(Widgets(h, a)) = Len(Widgets(h, b))
    /\ \A i \in 1..Len(Widgets(h, a)) :
          (i # 6 \/ ~seedMayDiffer) => Widgets(h, a)[i] = Widgets(h, b)[i]

\* C16: two applications of an override set to the same document end the
\* same way, and the documents they return are equal in every slot except
\* the seed slot when the set has seed null; applying the set to the
\* document a first application returned gives a document equal to it
\* except for that seed slot.
C16_OverrideIdempotent ==
    pc = "ov_again" =>
        /\ ovSecond.raised = ovOut.raised
        /\ ~ovRepeat.raised
        /\ ~ovOut.raised =>
              /\ SameButSeed(heap, ovOut.ret, ovSecond.ret, SeedIsNull(ovArg))
              /\ SameButSeed(heap, ovOut.ret, ovRepeat.ret, SeedIsNull(ovArg))

C16_Witness ==
    /\ pc = "ov_again"
    /\ SeedIsNull(ovArg)
    /\ "steps" \in DOMAIN ovArg
    /\ Len(Widgets(heap, ovIn)) = 10
    /\ Widgets(heap, ovOut.ret)[4] = Num(20)
    /\ Widgets(heap, ovIn)[4] # Num(20)
    /\ Widgets(heap, ovSecond.ret)[6] # Widgets(heap, ovOut.ret)[6]
    /\ Widgets(heap, ovRepeat.ret)[6] # Widgets(heap, ovOut.ret)[6]

----------------------------------------------------------------------------
(* Properties of validation *)

\* the request in hand has an overrides field that is not a mapping
OverridesNotAMapping ==
    /\ event \in Events
    /\ event.shape = "dict"
    /\ event.input.shape = "dict"
    /\ event.input.overrides.shape \in { "falsy", "truthy" }

\* C17: a request whose overrides field is not a mapping, be the value
\* truthy or falsy, is reported invalid by validate_input and answered
\* FAILED; it never goes on to submission.
C17_NonMappingOverridesRejected ==
    OverridesNotAMapping =>
        /\ ~validate_input(event).valid
        /\ pc = "done"
        /\ FailureShape(response)
        /\ attempts = <<>>

----------------------------------------------------------------------------
(* Properties of the submission *)

RECURSIVE SumSeq(_)
SumSeq(q) == IF q = <<>> THEN 0 ELSE Head(q) + SumSeq(Tail(q))

\* C18: queue_prompt waits between two consecutive attempts, 2^k seconds
\* after the failure of attempt k (counted from 0): 1 second, then 2; no
\* wait follows the last attempt, and a call that used all 3 attempts has
\* slept 3 seconds in total.
C18_BackoffDoubles ==
    /\ \A k \in 1..Len(sleeps) : sleeps[k] = 2 ^ (k - 1)
    /\ pc = "queue" => Len(sleeps) = Len(attempts)
    /\ pc = "queued" => Len(sleeps) = Len(attempts) - 1
    /\ (pc = "queued" /\ Len(attempts) = MAX_RETRIES) => SumSeq(sleeps) = 3

C18_Witness ==
    /\ pc = "queued"
    /\ prompt_id = NoId
    /\ Len(attempts) = MAX_RETRIES
    /\ sleeps = <<1, 2>>

----------------------------------------------------------------------------
(* Properties of the order of the engine calls *)

\* C19: within a request every GET /history comes after a POST /prompt
\* that answered a job identifier and asks for that identifier; every GET
\* /view comes after a status answer that reported that identifier
\* completed; the success envelope carries that identifier; and no POST
\* /prompt is issued once polling has begun.
C19_OneHandleInOrder ==
    /\ [](nHist > 0 => (posted \in PromptIds /\ histId = posted /\ prompt_id = posted))
    /\ [](fetches # <<>> => (nHist > 0 /\ lastHist.kind = "ok" /\ lastHist.key = posted
                                        /\ lastHist.entry.completed))
    /\ []((pc = "done" /\ response.status = "COMPLETED")
              => (nHist > 0 /\ response.output[2].prompt_id = posted))
    /\ [][(pc = "wait" \/ pc = "waited" \/ pc = "extract")
             => (attempts' = attempts /\ posted' = posted /\ prompt_id' = prompt_id)]_vars

C19_Witness ==
    /\ pc = "done"
    /\ response.status = "COMPLETED"
    /\ response.output[2].prompt_id = "p2"
    /\ Len(fetches) > 1
    /\ nHist > 1
    /\ nFail > 0

----------------------------------------------------------------------------
(* Properties of termination *)

\* handler is between its first call of queue_prompt and its return
Running == pc \in { "queue", "queued", "wait", "waited", "extract" }

\* every handler that got as far as the submission comes to its end: the
\* submission loop, the polling loop and the extraction loop all terminate
HandlerTerminates == Running ~> (pc = "done")

\* C20: every handler invocation eventually returns a response, whatever
\* the engine answers: the invocation comes to its end, and it ends with a
\* returned response, not with an exception.
C20_EveryInvocationReturns ==
    /\ HandlerTerminates
    /\ [](pc = "done" => ~response.raised)

====
